---------------------------- MODULE Spec2Model ----------------------------
(***************************************************************************)
(* Model of the ECS mapping front end.                                     *)
(*                                                                         *)
(*   MapFromJsonPage  (src/unnamed/part_001): extractFieldPaths,            *)
(*     getByPath, buildBatchPayload, handleMap, payloadPreview.            *)
(*   MappingsListPage (src/src/pages/MappingsListPage.tsx): load, the      *)
(*     search box and the pager, filtered, exportCSV, startEdit,           *)
(*     cancelEdit, saveEdit.                                               *)
(* Only one of the two pages is mounted at a time (a route each), so each  *)
(* has its own specification over the variables below.                     *)
(*                                                                         *)
(* Strings that the program takes apart or puts together (the pasted text, *)
(* keys, field paths, descriptions) are sequences of one-character         *)
(* strings.  Messages the program only stores are TLA+ strings.            *)
(*                                                                         *)
(* A JSON value is a tagged tuple:                                         *)
(*   <<"null">>, <<"num", n>>, <<"str", s>>, <<"bool", b>>,                 *)
(*   <<"obj", members>>  members: sequence of <<key, value>>, distinct     *)
(*                       keys, in Object.keys order,                       *)
(*   <<"arr", elems>>    elems: sequence of values.                        *)
(* <<"undefined">> is JavaScript's undefined.                              *)
(***************************************************************************)
EXTENDS Naturals, Sequences, FiniteSets, TLC

VARIABLES
    text,            \* useState("") line 49: the pasted text
    sourcetype,      \* useState("pan_traffic") line 50
    model,           \* useState("gpt-4o-mini") line 51
    limit,           \* useState(5) line 52
    loading,         \* useState(false) line 53; line 16 of the list page
    error,           \* useState<string | null>(null) line 54
    results,         \* useState<MapBatchResultItem[]>([]) line 55
    payloadPreview,  \* useMemo line 131: the preview text of the payload
    inflight,        \* POST /map-batch requests awaiting their response
    lastOp,          \* history: the kind of handler that ran last
    event,           \* history: what that handler was given (the response
                     \* and the request it answers); NoEvent if nothing
    items,           \* MappingsListPage: useState<Row[]>([]) line 11
    q,               \* useState("") line 12: the search text
    page,            \* useState(1) line 13
    total,           \* useState(0) line 15
    notImplemented,  \* useState(false) line 17
    savingId,        \* useState<number | null>(null) line 19
    editId,          \* useState<number | null>(null) line 20
    editHuman,       \* useState(false) line 21
    editMapped,      \* useState("") line 22
    filtered,        \* useMemo line 52: the rows the table shows
    gets,            \* GET /mappings requests awaiting their response
    patches,         \* PATCH /mappings/{id} requests awaiting theirs
    csv,             \* the text of the file exportCSV made last
    doc,             \* input of a stand-alone extractFieldPaths call
    extracted,       \* its result
    silentArg,       \* argument of a stand-alone buildBatchPayload call
    built,           \* its result
    pc               \* position of the stand-alone call: "ready" | "done"

vars == <<text, sourcetype, model, limit, loading, error, results,
          payloadPreview, inflight, lastOp, event, items, q, page, total,
          notImplemented, savingId, editId, editHuman, editMapped, filtered,
          gets, patches, csv, doc, extracted, silentArg, built, pc>>

pageVars == <<text, sourcetype, model, limit, loading, error, results,
              payloadPreview, inflight, lastOp, event>>

listVars == <<items, q, page, total, notImplemented, savingId, editId,
              editHuman, editMapped, filtered, gets, patches, csv>>

\* The unmounted list page: the values of its useState calls.
NoId == 0
ListUnmounted ==
    /\ items = <<>> /\ q = <<>> /\ page = 1 /\ total = 0
    /\ notImplemented = FALSE /\ savingId = NoId /\ editId = NoId
    /\ editHuman = FALSE /\ editMapped = <<>> /\ filtered = <<>>
    /\ gets = <<>> /\ patches = <<>> /\ csv = <<>>

NoEvent == <<>>

(***************************************************************************)
(* Bounds of the model.                                                    *)
(***************************************************************************)
\* Levels of nested keys in the documents given to extractFieldPaths.
MaxNest == 4
\* Length of the arrays of documents given to buildBatchPayload.
MaxBatch == 2
\* Cap on the requests in flight at once (the page itself allows one).
MaxInflight == 2
\* Cap on the requests of the list page in flight at once, the GET
\* /mappings and the PATCH /mappings/{id} requests together.
MaxRequests == 2
\* Number of cached rows given to a stand-alone exportCSV call.
MaxRows == 2

(***************************************************************************)
(* JSON values.                                                            *)
(***************************************************************************)
Null == <<"null">>
Undefined == <<"undefined">>
Num(n) == <<"num", n>>
Str(s) == <<"str", s>>
Bool(b) == <<"bool", b>>
Obj(members) == <<"obj", members>>
Arr(elems) == <<"arr", elems>>

Tag(v) == v[1]

\* The elements of a sequence.
SetOf(seq) == {seq[i] : i \in 1..Len(seq)}

\* typeof v === "object" && v !== null  (lines 17, 24, 41, 74, 75):
\* true of plain objects and of arrays.
IsObject(v) == Tag(v) \in {"obj", "arr"}

\* Array.isArray(v)  (line 73)
IsArray(v) == Tag(v) = "arr"

Digits == <<"0", "1", "2", "3", "4", "5", "6", "7", "8", "9">>

RECURSIVE ToDecimal(_)
\* String(n) of a natural number (an array index, a numeric sample value).
ToDecimal(n) ==
    IF n < 10 THEN <<Digits[n + 1]>>
    ELSE ToDecimal(n \div 10) \o <<Digits[(n % 10) + 1]>>

\* The own enumerable properties of an object or array, as <<key, value>>
\* in Object.keys order (line 20); an array's keys are its indices.
Entries(v) ==
    IF Tag(v) = "obj" THEN v[2]
    ELSE IF Tag(v) = "arr"
         THEN [i \in 1..Len(v[2]) |-> <<ToDecimal(i - 1), v[2][i]>>]
         ELSE <<>>

LengthKey == <<"l", "e", "n", "g", "t", "h">>

\* key in acc  (line 41).  Own keys, and an array's length.  Properties
\* inherited from Object.prototype are outside the key alphabet used here.
In(key, acc) ==
    \/ \E i \in 1..Len(Entries(acc)) : Entries(acc)[i][1] = key
    \/ IsArray(acc) /\ key = LengthKey

\* acc[key]  (line 42), for a key that is in acc.
Get(acc, key) ==
    IF IsArray(acc) /\ key = LengthKey THEN Num(Len(acc[2]))
    ELSE LET i == CHOOSE j \in 1..Len(Entries(acc)) : Entries(acc)[j][1] = key
         IN  Entries(acc)[i][2]

(***************************************************************************)
(* extractFieldPaths (lines 10-32).  The Set<string> `out` is a sequence   *)
(* without repetitions, in insertion order.                                *)
(***************************************************************************)
DefaultMaxDepth == 2

\* Set.prototype.add (lines 25, 28)
SetAdd(out, x) ==
    IF \E i \in 1..Len(out) : out[i] = x THEN out ELSE Append(out, x)

\* line 21: prefix ? `${prefix}.${key}` : key   (the empty string is falsy)
pathOf(prefix, key) ==
    IF prefix # <<>> THEN prefix \o <<".">> \o key ELSE key

stopAtOver(obj, depth, maxDepth) == (~IsObject(obj)) \/ depth > maxDepth + 1

\* line 17: the early return
stopAt(obj, depth, maxDepth) == (~IsObject(obj)) \/ depth > maxDepth

RECURSIVE extractFieldPaths(_, _, _, _, _), extractKeys(_, _, _, _, _, _)

extractFieldPaths(obj, prefix, depth, maxDepth, out) ==
    IF stopAt(obj, depth, maxDepth) THEN out
    ELSE extractKeys(Entries(obj), 1, prefix, depth, maxDepth, out)

\* lines 20-30: the loop over Object.keys(rec), from the i-th key on
extractKeys(ents, i, prefix, depth, maxDepth, out) ==
    IF i > Len(ents) THEN out
    ELSE LET key == ents[i][1]
             val == ents[i][2]
             path == pathOf(prefix, key)
             added == SetAdd(out, path)
             after == IF IsObject(val)
                      THEN extractFieldPaths(val, path, depth + 1, maxDepth, added)
                      ELSE added
         IN  extractKeys(ents, i + 1, prefix, depth, maxDepth, after)

(***************************************************************************)
(* getByPath (lines 35-46)                                                 *)
(***************************************************************************)
RECURSIVE Split(_, _)
\* String.prototype.split(sep) for a one-character separator (line 40)
Split(s, sep) ==
    IF \A i \in 1..Len(s) : s[i] # sep THEN <<s>>
    ELSE LET i == CHOOSE j \in 1..Len(s) :
                      s[j] = sep /\ \A k \in 1..(j - 1) : s[k] # sep
         IN  <<SubSeq(s, 1, i - 1)>> \o Split(SubSeq(s, i + 1, Len(s)), sep)

RECURSIVE reduceKeys(_, _, _)
\* lines 40-45: the reduce over the segments, from the i-th on
reduceKeys(segs, i, acc) ==
    IF i > Len(segs) THEN acc
    ELSE reduceKeys(segs, i + 1,
                    IF IsObject(acc) /\ In(segs[i], acc)
                    THEN Get(acc, segs[i])
                    ELSE Undefined)

\* obj is an object or array here, so !obj (line 39) is false
getByPath(obj, path) ==
    IF ~IsObject(obj) THEN Undefined
    ELSE reduceKeys(Split(path, "."), 1, obj)

(***************************************************************************)
(* Documents given to a stand-alone extractFieldPaths call.                *)
(***************************************************************************)
Keys == {<<"a">>, <<"b">>, <<"a", ".", "b">>, <<>>}

Leaves == {Num(1), Str(<<"x">>), Null, Obj(<<>>), Arr(<<Num(1)>>)}

RECURSIVE Level(_)
\* Values with at most n levels of nested one-key objects above a leaf.
Level(n) ==
    IF n = 0 THEN Leaves
    ELSE Leaves \cup {Obj(<< <<k, v>> >>) : k \in Keys, v \in Level(n - 1)}

\* Two-key objects: siblings, and keys whose paths may coincide.
TwoKey ==
    {Obj(<< <<kk[1], v>>, <<kk[2], Num(1)>> >>) :
        kk \in {p \in Keys \X Keys : p[1] # p[2]}, v \in Level(1)}

ExtractDocs == Level(MaxNest) \cup TwoKey

RECURSIVE HasEmptyKey(_)
\* Some object inside v has the empty string as a key.
HasEmptyKey(v) ==
    \E e \in SetOf(Entries(v)) : e[1] = <<>> \/ HasEmptyKey(e[2])

(***************************************************************************)
(* Text and JSON.parse / JSON.stringify.                                   *)
(***************************************************************************)
Whitespace == {" ", "\n", "\t"}

RECURSIVE TrimStart(_), TrimEnd(_)
TrimStart(s) ==
    IF s # <<>> /\ Head(s) \in Whitespace THEN TrimStart(Tail(s)) ELSE s

TrimEnd(s) ==
    IF s # <<>> /\ s[Len(s)] \in Whitespace
    THEN TrimEnd(SubSeq(s, 1, Len(s) - 1)) ELSE s

\* String.prototype.trim (line 61)
Trim(s) == TrimEnd(TrimStart(s))

Quoted(s) == <<"\"">> \o s \o <<"\"">>

RECURSIVE Stringify(_), StringifyFrom(_, _, _)
\* JSON.stringify without indentation.  The strings used here hold no
\* character that JSON escapes.
Stringify(v) ==
    CASE Tag(v) = "null" -> <<"n", "u", "l", "l">>
      [] Tag(v) = "num" -> ToDecimal(v[2])
      [] Tag(v) = "str" -> Quoted(v[2])
      [] Tag(v) = "bool" -> IF v[2] THEN <<"t", "r", "u", "e">>
                                    ELSE <<"f", "a", "l", "s", "e">>
      [] Tag(v) = "obj" -> <<"{">> \o StringifyFrom(v, 1, TRUE) \o <<"}">>
      [] Tag(v) = "arr" -> <<"[">> \o StringifyFrom(v, 1, FALSE) \o <<"]">>

\* The members of v from the i-th on, separated by commas.
StringifyFrom(v, i, withKeys) ==
    IF i > Len(Entries(v)) THEN <<>>
    ELSE (IF i > 1 THEN <<",">> ELSE <<>>)
         \o (IF withKeys THEN Quoted(Entries(v)[i][1]) \o <<":">> ELSE <<>>)
         \o Stringify(Entries(v)[i][2])
         \o StringifyFrom(v, i + 1, withKeys)

\* Elements of the pasted arrays: objects with a scalar, a null and a
\* container at the same path, paths only some objects have, a key that
\* holds a dot, an empty key, and entries that are no plain object.
BatchElems ==
    { Obj(<< <<<<"a">>, Num(1)>> >>),
      Obj(<< <<<<"a">>, Str(<<"x">>)>> >>),
      Obj(<< <<<<"a">>, Null>> >>),
      Obj(<< <<<<"a">>, Bool(TRUE)>> >>),
      Obj(<< <<<<"a">>, Obj(<< <<<<"b">>, Num(1)>> >>)>> >>),
      Obj(<< <<<<"b">>, Num(1)>>, <<<<"a">>, Num(2)>> >>),
      Obj(<< <<<<"a", ".", "b">>, Num(1)>> >>),
      Obj(<< <<<<>>, Obj(<< <<<<"b">>, Num(1)>> >>)>> >>),
      Obj(<<>>),
      Arr(<<Num(1)>>),
      Num(1),
      Null }

RECURSIVE SeqsUpTo(_, _)
\* The sequences of at most n elements of S.
SeqsUpTo(S, n) ==
    IF n = 0 THEN {<<>>}
    ELSE SeqsUpTo(S, n - 1)
         \cup {Append(w, e) : w \in {r \in SeqsUpTo(S, n - 1) : Len(r) = n - 1},
                              e \in S}

\* A document nested deeper than the walk goes.
DeepDoc ==
    Obj(<< <<<<"a">>, Obj(<< <<<<"a">>, Obj(<< <<<<"a">>,
        Obj(<< <<<<"a">>, Num(1)>> >>)>> >>)>> >>)>> >>)

\* The values whose text can be pasted.
PastedValues ==
    BatchElems \cup {DeepDoc, Str(<<"x">>), Bool(FALSE), Arr(<<Arr(<<>>)>>)}
    \cup {Arr(w) : w \in SeqsUpTo(BatchElems, MaxBatch)}

\* The JSON texts, each with the value it denotes.
ParsePairs == {<<Stringify(v), v>> : v \in PastedValues}

NotJson == <<"{", "n", "o", "t", " ", "j", "s", "o", "n">>

ValidTexts == {p[1] : p \in ParsePairs}

\* The value each JSON text denotes.
ParseTable == [t \in ValidTexts |-> (CHOOSE p \in ParsePairs : p[1] = t)[2]]

\* JSON.parse(text) (line 65): the value, or a SyntaxError thrown.  JSON
\* allows white space around the value.
JSONParse(txt) ==
    LET t == Trim(txt)
    IN  IF t \in ValidTexts THEN [ok |-> TRUE, value |-> ParseTable[t]]
        ELSE [ok |-> FALSE, value |-> Undefined]

(***************************************************************************)
(* buildBatchPayload (lines 59-97).  Its result here is what it returns    *)
(* (isNull: null was returned; payload: the list otherwise) together with  *)
(* its one side effect, the message given to setError (NotSet: none).      *)
(***************************************************************************)
NoError == "<null>"
NotSet == "<setError not called>"
InvalidJsonMsg == "Invalid JSON. Please paste a valid JSON object or array."
ShapeMsg == "JSON must be an object or an array of objects."

PanTraffic == <<"p", "a", "n", "_", "t", "r", "a", "f", "f", "i", "c">>
SamplePrefix ==
    <<"s", "a", "m", "p", "l", "e", " ", "v", "a", "l", "u", "e", ":", " ">>
FieldPrefix == <<"f", "i", "e", "l", "d", " ">>

NoPayload(msg) == [isNull |-> TRUE, payload |-> <<>>, setError |-> msg]

\* The value of `built` before the stand-alone call.
NotBuilt == NoPayload(NotSet)

isBlankNoTrim(txt) == txt = <<>>

\* line 61: !text || text.trim() === ""
isBlank(txt) == txt = <<>> \/ Trim(txt) = <<>>

onParseErrorLoud(silent) == InvalidJsonMsg

\* lines 66-70: the catch of JSON.parse
onParseError(silent) == IF ~silent THEN InvalidJsonMsg ELSE NotSet

\* line 80
onNoObjects(silent) == IF ~silent THEN ShapeMsg ELSE NotSet

\* lines 73-77: the objects of the input
toArr(parsed) ==
    IF IsArray(parsed) THEN SelectSeq(parsed[2], IsObject)
    ELSE IF IsObject(parsed) THEN <<parsed>>
    ELSE <<>>

RECURSIVE collectFrom(_, _, _)
\* line 85: the loop over arr, from the i-th document on
collectFrom(arr, i, fields) ==
    IF i > Len(arr) THEN fields
    ELSE collectFrom(arr, i + 1,
             extractFieldPaths(arr[i], <<>>, 0, DefaultMaxDepth, fields))

collectFieldsFirstOnly(arr) ==
    extractFieldPaths(arr[1], <<>>, 0, DefaultMaxDepth, <<>>)

\* lines 84-85
collectFields(arr) == collectFrom(arr, 1, <<>>)

\* String(v) of a scalar (line 92)
String(v) ==
    CASE Tag(v) = "num" -> ToDecimal(v[2])
      [] Tag(v) = "str" -> v[2]
      [] Tag(v) = "bool" -> IF v[2] THEN <<"t", "r", "u", "e">>
                                    ELSE <<"f", "a", "l", "s", "e">>

\* lines 89-93
describe(first, f) ==
    LET v == getByPath(first, f)
    IN  IF v # Undefined /\ v # Null /\ ~IsObject(v)
        THEN SamplePrefix \o String(v)
        ELSE FieldPrefix \o f

buildBatchPayload(txt, st, silent) ==
    IF isBlank(txt) THEN NoPayload(NotSet)
    ELSE LET parsed == JSONParse(txt)
         IN  IF ~parsed.ok THEN NoPayload(onParseError(silent))
             ELSE LET arr == toArr(parsed.value)
                  IN  IF Len(arr) = 0 THEN NoPayload(onNoObjects(silent))
                      ELSE LET fields == collectFields(arr)
                               first == arr[1]
                           IN  [isNull |-> FALSE,
                                payload |->
                                    [i \in 1..Len(fields) |->
                                        [sourcetype |-> st,
                                         field |-> fields[i],
                                         description |->
                                             describe(first, fields[i])]],
                                setError |-> NotSet]

(***************************************************************************)
(* What a document holds, told without the walk of extractFieldPaths.      *)
(***************************************************************************)
RECURSIVE KeySeqs(_)
\* Every non-empty sequence of keys that leads from v to a value inside it.
KeySeqs(v) ==
    IF ~IsObject(v) THEN {}
    ELSE UNION {{<<e[1]>>} \cup {<<e[1]>> \o ks : ks \in KeySeqs(e[2])} :
                   e \in SetOf(Entries(v))}

RECURSIVE ValueAt(_, _)
\* The value that the key sequence ks of v leads to.
ValueAt(v, ks) ==
    IF ks = <<>> THEN v ELSE ValueAt(Get(v, Head(ks)), Tail(ks))

RECURSIVE DotJoin(_)
\* The keys joined by dots.
DotJoin(ks) ==
    IF Len(ks) = 1 THEN ks[1] ELSE ks[1] \o <<".">> \o DotJoin(Tail(ks))

RECURSIVE pathOfKeys(_, _)
\* The path the walk forms for the keys ks below prefix (line 21, repeated).
pathOfKeys(prefix, ks) ==
    IF ks = <<>> THEN prefix
    ELSE pathOfKeys(pathOf(prefix, Head(ks)), Tail(ks))

\* The number of keys of the longest key sequence of v.
Nesting(v) ==
    IF KeySeqs(v) = {} THEN 0
    ELSE CHOOSE n \in 1..(MaxNest + 2) :
             /\ \E ks \in KeySeqs(v) : Len(ks) = n
             /\ \A ks \in KeySeqs(v) : Len(ks) <= n

RECURSIVE NoArrays(_)
\* v is made of plain objects and scalars only.
NoArrays(v) ==
    /\ Tag(v) # "arr"
    /\ \A e \in SetOf(Entries(v)) : NoArrays(e[2])

\* The paths of `paths` that no sequence of at most n keys of d forms.
DeeperThan(paths, d, n) ==
    {p \in SetOf(paths) :
        ~\E ks \in KeySeqs(d) : Len(ks) <= n /\ pathOfKeys(<<>>, ks) = p}

(***************************************************************************)
(* Claims about extractFieldPaths, under SpecExtract.                      *)
(***************************************************************************)
\* C1: for every document made of objects and scalars with at most 2 levels
\* of nesting, extractFieldPaths(doc, "", 0, 2) returns exactly the set of
\* the dot-joined key paths of the document.
C1_ExactlyTheKeyPaths ==
    (pc = "done" /\ Tag(doc) = "obj" /\ NoArrays(doc) /\ Nesting(doc) <= 2)
        => SetOf(extracted) = {DotJoin(ks) : ks \in KeySeqs(doc)}

\* C2 as stated: no path returned with the default maximum depth 2 has more
\* than 2 dot-joined keys, however deeply the document is nested.
C2_AtMostTwoKeys ==
    pc = "done" => DeeperThan(extracted, doc, DefaultMaxDepth) = {}

\* C2 as amended: no path returned with the default maximum depth 2 has
\* more than 3 (maximum depth + 1) dot-joined keys, however deeply the
\* document is nested.
C2_AtMostThreeKeys ==
    pc = "done" => DeeperThan(extracted, doc, DefaultMaxDepth + 1) = {}

\* A document nested deeper than the walk goes, whose walk returned a path
\* of three keys.
C2_Witness ==
    /\ pc = "done"
    /\ Nesting(doc) > DefaultMaxDepth + 1
    /\ DeeperThan(extracted, doc, DefaultMaxDepth) # {}

(***************************************************************************)
(* Stand-alone call of extractFieldPaths(doc, "", 0, 2).                   *)
(***************************************************************************)
InitExtract ==
    /\ \/ doc \in {d \in ExtractDocs : ~HasEmptyKey(d)}
       \/ doc \in {d \in ExtractDocs : HasEmptyKey(d)}
    /\ extracted = <<>>
    /\ pc = "ready"
    /\ text = <<>> /\ sourcetype = PanTraffic /\ model = "" /\ limit = 0
    /\ loading = FALSE /\ error = NoError /\ results = <<>>
    /\ payloadPreview = <<>> /\ inflight = <<>> /\ lastOp = "init"
    /\ event = NoEvent /\ ListUnmounted
    /\ silentArg = FALSE /\ built = NotBuilt

ExtractFieldPaths ==
    /\ pc = "ready"
    /\ extracted' = extractFieldPaths(doc, <<>>, 0, DefaultMaxDepth, <<>>)
    /\ pc' = "done"
    /\ UNCHANGED <<doc, silentArg, built>>
    /\ UNCHANGED <<pageVars, listVars>>

NextExtract == ExtractFieldPaths

SpecExtract == InitExtract /\ [][NextExtract]_vars

(***************************************************************************)
(* Stand-alone call of buildBatchPayload(silent) on a pasted text.         *)
(***************************************************************************)
BlankTexts == {<<>>, <<" ">>, <<" ", "\n">>, <<"\t">>}
MalformedTexts == {NotJson, <<"{">>, <<"{", "}", "x">>}

BuildTexts ==
    ValidTexts
    \cup {<<" ">> \o Stringify(v) \o <<"\n">> : v \in BatchElems}
    \cup BlankTexts \cup MalformedTexts

InitBuild ==
    /\ text \in BuildTexts
    /\ silentArg \in BOOLEAN
    /\ sourcetype = PanTraffic
    /\ built = NotBuilt
    /\ pc = "ready"
    /\ model = "" /\ limit = 0
    /\ loading = FALSE /\ error = NoError /\ results = <<>>
    /\ payloadPreview = <<>> /\ inflight = <<>> /\ lastOp = "init"
    /\ event = NoEvent /\ ListUnmounted
    /\ doc = Null /\ extracted = <<>>

BuildBatchPayload ==
    /\ pc = "ready"
    /\ built' = buildBatchPayload(text, sourcetype, silentArg)
    /\ pc' = "done"
    /\ UNCHANGED <<doc, extracted, silentArg>>
    /\ UNCHANGED <<pageVars, listVars>>

NextBuild == BuildBatchPayload

SpecBuild == InitBuild /\ [][NextBuild]_vars

\* The fields of a payload.
FieldsOf(payload) == {payload[i].field : i \in 1..Len(payload)}

\* The paths extractFieldPaths returns for one document alone.
PathsOfDoc(d) == SetOf(extractFieldPaths(d, <<>>, 0, DefaultMaxDepth, <<>>))

\* The non-null scalars that d holds under a key sequence whose dot-joined
\* path is f.
ScalarsAt(d, f) ==
    {v \in {ValueAt(d, ks) : ks \in {k \in KeySeqs(d) : DotJoin(k) = f}} :
        v # Null /\ ~IsObject(v)}

\* C3: for an input that is an array of N objects, the fields of the
\* payload are the union of extractFieldPaths applied to each object alone,
\* and the payload has one item per distinct path.
C3_UnionOfDocuments ==
    LET parsed == JSONParse(text)
    IN  (/\ pc = "done"
         /\ parsed.ok
         /\ IsArray(parsed.value)
         /\ Len(parsed.value[2]) >= 1
         /\ \A e \in SetOf(parsed.value[2]) : Tag(e) = "obj")
        => /\ ~built.isNull
           /\ FieldsOf(built.payload)
                  = UNION {PathsOfDoc(e) : e \in SetOf(parsed.value[2])}
           /\ Len(built.payload) = Cardinality(FieldsOf(built.payload))

\* An array of two objects whose second object has a path that the first
\* lacks and shares another with it; the payload holds both.
C3_Witness ==
    LET parsed == JSONParse(text)
    IN  /\ pc = "done"
        /\ parsed.ok
        /\ IsArray(parsed.value)
        /\ Len(parsed.value[2]) = 2
        /\ \A e \in SetOf(parsed.value[2]) : Tag(e) = "obj"
        /\ PathsOfDoc(parsed.value[2][2]) \ PathsOfDoc(parsed.value[2][1]) # {}
        /\ PathsOfDoc(parsed.value[2][2]) \cap PathsOfDoc(parsed.value[2][1]) # {}
        /\ PathsOfDoc(parsed.value[2][2]) \subseteq FieldsOf(built.payload)

\* C5: for valid JSON that is neither a plain object nor an array holding at
\* least one plain object (scalars, nulls and arrays inside the array do not
\* count), buildBatchPayload returns no payload and sets the shape error in
\* non-silent mode and no error in silent mode.
C5_ShapeError ==
    LET parsed == JSONParse(text)
    IN  (/\ pc = "done"
         /\ ~isBlank(text)
         /\ parsed.ok
         /\ Tag(parsed.value) # "obj"
         /\ ~(IsArray(parsed.value)
              /\ \E e \in SetOf(parsed.value[2]) : Tag(e) = "obj"))
        => /\ built.isNull
           /\ built.setError = IF silentArg THEN NotSet ELSE ShapeMsg

\* C8: the description of every item comes from the first document alone:
\* "sample value: <v>" when the first document holds a non-null scalar v at
\* the path, "field <path>" otherwise; and every path of a later document
\* is in the payload.
C8_DescriptionFromFirst ==
    LET parsed == JSONParse(text)
        docs == toArr(parsed.value)
    IN  (pc = "done" /\ ~built.isNull)
        => /\ \A i \in 1..Len(built.payload) :
                LET item == built.payload[i]
                    held == ScalarsAt(docs[1], item.field)
                IN  IF held # {}
                    THEN \E v \in held :
                             item.description = SamplePrefix \o String(v)
                    ELSE item.description = FieldPrefix \o item.field
           /\ \A j \in 1..Len(docs) :
                PathsOfDoc(docs[j]) \subseteq FieldsOf(built.payload)

(***************************************************************************)
(* MapFromJsonPage (lines 48-263): the page, its handlers and the POST     *)
(* /map-batch requests it has in flight.                                   *)
(***************************************************************************)
DefaultLimit == 5
NaN == "NaN"
FallbackMsg == "Mapping failed. Check backend logs."

\* Texts the user pastes into the page.
PageTexts ==
    { <<>>, <<" ">>, NotJson,
      Stringify(Obj(<<>>)),
      Stringify(Num(1)),
      Stringify(Arr(<<Arr(<<Num(1)>>)>>)),
      Stringify(Obj(<< <<<<"a">>, Num(1)>> >>)),
      Stringify(Arr(<<Obj(<< <<<<"a">>, Num(1)>> >>),
                      Obj(<< <<<<"b">>, Num(1)>>, <<<<"a">>, Num(2)>> >>)>>)) }

Sourcetypes == {PanTraffic, <<"x">>}
Models == {"gpt-4o-mini", "gpt-4o", "o4-mini"}     \* lines 163-165
LimitInputs == {<<"1", "0">>, <<"x">>, <<>>}

\* What the backend may answer: data.results of a success, and the
\* response.data.detail and response.data.message of a failure ("": none).
ResultLists == {<<>>, <<"r1">>, <<"r2", "r1">>}
\* data of a response: isArray is Array.isArray(data?.results); when it is
\* not, results is empty for a missing member and else holds what the
\* member is (an object, a string)
ResponseData ==
    {[isArray |-> TRUE, results |-> r] : r \in ResultLists}
    \cup {[isArray |-> FALSE, results |-> r] : r \in {<<>>, <<"r1">>}}
ErrorTexts == {"", "backend said no"}

DigitValue(c) == (CHOOSE i \in 1..10 : Digits[i] = c) - 1
IsDigit(c) == \E i \in 1..10 : Digits[i] = c

RECURSIVE parseIntFrom(_, _, _)
\* parseInt(raw, 10), for digits only: the leading digits, NaN if none
parseIntFrom(raw, i, acc) ==
    IF i > Len(raw) \/ ~IsDigit(raw[i])
    THEN (IF i = 1 THEN NaN ELSE acc)
    ELSE parseIntFrom(raw, i + 1, 10 * acc + DigitValue(raw[i]))

\* line 176: Number.isNaN(Number(v)) ? 5 : parseInt(v, 10); Number("") is 0
toLimit(raw) ==
    IF \E i \in 1..Len(raw) : ~IsDigit(raw[i]) THEN DefaultLimit
    ELSE parseIntFrom(raw, 1, 0)

\* The state after setError(msg), NotSet standing for no call.
applySetError(cur, msg) == IF msg = NotSet THEN cur ELSE msg

SourcetypeKey == <<"s", "o", "u", "r", "c", "e", "t", "y", "p", "e">>
FieldKey == <<"f", "i", "e", "l", "d">>
DescriptionKey == <<"d", "e", "s", "c", "r", "i", "p", "t", "i", "o", "n">>

\* A payload as the JSON value that is serialised.
PayloadJson(payload) ==
    Arr([i \in 1..Len(payload) |->
            Obj(<< <<SourcetypeKey, Str(payload[i].sourcetype)>>,
                   <<FieldKey, Str(payload[i].field)>>,
                   <<DescriptionKey, Str(payload[i].description)>> >>)])

\* lines 131-135: buildBatchPayload(true), then JSON.stringify of the
\* payload (the indentation is left out) or "".
previewOf(txt, st) ==
    LET p == buildBatchPayload(txt, st, TRUE)
    IN  [shown |-> IF p.isNull THEN <<>> ELSE Stringify(PayloadJson(p.payload)),
         setError |-> p.setError]

Init ==
    /\ text = <<>>
    /\ sourcetype = PanTraffic
    /\ model = "gpt-4o-mini"
    /\ limit = DefaultLimit
    /\ loading = FALSE
    /\ error = NoError
    /\ results = <<>>
    /\ payloadPreview = previewOf(<<>>, PanTraffic).shown
    /\ inflight = <<>>
    /\ lastOp = "init"
    /\ event = NoEvent
    /\ ListUnmounted
    /\ doc = Null /\ extracted = <<>> /\ silentArg = FALSE
    /\ built = NotBuilt /\ pc = "ready"

\* The render after a change of text, sourcetype, model or limit recomputes
\* the preview (the dependencies of useMemo, line 135).
Rerender(txt, st) ==
    LET p == previewOf(txt, st)
    IN  /\ payloadPreview' = p.shown
        /\ error' = applySetError(error, p.setError)

\* line 187: onChange of the textarea
SetText(t) ==
    /\ text' = t
    /\ Rerender(t, sourcetype)
    /\ lastOp' = "change" /\ event' = NoEvent
    /\ UNCHANGED <<sourcetype, model, limit, loading, results, inflight>>

\* line 152
SetSourcetype(st) ==
    /\ sourcetype' = st
    /\ Rerender(text, st)
    /\ lastOp' = "change" /\ event' = NoEvent
    /\ UNCHANGED <<text, model, limit, loading, results, inflight>>

\* line 161
SetModel(m) ==
    /\ model' = m
    /\ Rerender(text, sourcetype)
    /\ lastOp' = "change" /\ event' = NoEvent
    /\ UNCHANGED <<text, sourcetype, limit, loading, results, inflight>>

\* lines 175-177
SetLimit(raw) ==
    /\ limit' = toLimit(raw)
    /\ Rerender(text, sourcetype)
    /\ lastOp' = "change" /\ event' = NoEvent
    /\ UNCHANGED <<text, sourcetype, model, loading, results, inflight>>

ClickAlwaysEnabled == TRUE

\* line 193: disabled={loading}
ClickEnabled == ~loading

handleMapKeepsResults == [error |-> NoError, results |-> results]

\* lines 100-101: setError(null); setResults([])
handleMapClear == [error |-> NoError, results |-> <<>>]

\* lines 99-109: a click on the button, up to the await of api.post
HandleMap ==
    /\ ClickEnabled
    /\ Len(inflight) < MaxInflight
    /\ LET cleared == handleMapClear
           b == buildBatchPayload(text, sourcetype, FALSE)
       IN  /\ error' = applySetError(cleared.error, b.setError)
           /\ results' = cleared.results
           /\ IF b.isNull
              THEN UNCHANGED <<loading, inflight>>
              ELSE /\ loading' = TRUE
                   /\ inflight' = Append(inflight,
                          [payload |-> b.payload,
                           limit |-> limit, model |-> model])
    /\ lastOp' = "handleMap" /\ event' = NoEvent
    /\ UNCHANGED <<text, sourcetype, model, limit, payloadPreview>>

Without(reqs, i) == SubSeq(reqs, 1, i - 1) \o SubSeq(reqs, i + 1, Len(reqs))

resultsUnchecked(data) == data.results

\* line 110: Array.isArray(data?.results) ? data.results : []
resultsOf(data) == IF data.isArray THEN data.results ELSE <<>>

\* lines 109-111 and 115-117: the i-th request succeeds with data
Resolved(i, data) ==
    /\ i \in 1..Len(inflight)
    /\ results' = resultsOf(data)
    /\ loading' = FALSE
    /\ inflight' = Without(inflight, i)
    /\ lastOp' = "resolved" /\ event' = data
    /\ UNCHANGED <<text, sourcetype, model, limit, error, payloadPreview>>

\* line 114: detail || message || the fallback
failureMessage(detail, message) ==
    IF detail # "" THEN detail
    ELSE IF message # "" THEN message
    ELSE FallbackMsg

\* lines 112-117: the i-th request fails
Rejected(i, detail, message) ==
    /\ i \in 1..Len(inflight)
    /\ error' = failureMessage(detail, message)
    /\ loading' = FALSE
    /\ inflight' = Without(inflight, i)
    /\ lastOp' = "rejected" /\ event' = NoEvent
    /\ UNCHANGED <<text, sourcetype, model, limit, results, payloadPreview>>

standAlone == <<doc, extracted, silentArg, built, pc>>
offPage == <<standAlone, listVars>>

Next ==
    \/ \E t \in PageTexts : SetText(t) /\ UNCHANGED offPage
    \/ \E st \in Sourcetypes : SetSourcetype(st) /\ UNCHANGED offPage
    \/ \E m \in Models : SetModel(m) /\ UNCHANGED offPage
    \/ \E raw \in LimitInputs : SetLimit(raw) /\ UNCHANGED offPage
    \/ HandleMap /\ UNCHANGED offPage
    \/ \E i \in 1..MaxInflight, data \in ResponseData :
           Resolved(i, data) /\ UNCHANGED offPage
    \/ \E i \in 1..MaxInflight, d \in ErrorTexts, m \in ErrorTexts :
           Rejected(i, d, m) /\ UNCHANGED offPage

Spec == Init /\ [][Next]_vars

(***************************************************************************)
(* Claims about the page, under Spec.                                      *)
(***************************************************************************)
\* Every character of t is white space (so is the empty text).
AllWhitespace(t) == \A i \in 1..Len(t) : t[i] \in Whitespace

\* t is not blank and is no JSON text.
Malformed(t) == ~AllWhitespace(t) /\ ~JSONParse(t).ok

\* C4: whenever buildBatchPayload returns a payload the list is non-empty,
\* so no POST /map-batch is ever issued with an empty list of items.
C4_PayloadNeverEmpty ==
    /\ lastOp = "handleMap" =>
           LET b == buildBatchPayload(text, sourcetype, FALSE)
           IN  ~b.isNull => Len(b.payload) > 0
    /\ \A i \in 1..Len(inflight) : Len(inflight[i].payload) > 0

\* C6: on empty or whitespace-only text buildBatchPayload returns no payload
\* and sets no error, silent or not; a click on submit then issues no
\* request and leaves error = null and the results empty.
C6_BlankInput ==
    AllWhitespace(text) =>
        /\ \A s \in BOOLEAN :
               buildBatchPayload(text, sourcetype, s) = NoPayload(NotSet)
        /\ payloadPreview = <<>>
        /\ lastOp = "handleMap" =>
               /\ inflight = <<>>
               /\ ~loading
               /\ error = NoError
               /\ results = <<>>

\* Submit was clicked on a text of white space.
C6_Witness ==
    /\ lastOp = "handleMap"
    /\ text = <<" ">>
    /\ inflight = <<>>
    /\ error = NoError

\* C7: on malformed JSON buildBatchPayload returns no payload and sets the
\* parse-error message in non-silent mode only; the preview, built in silent
\* mode, never changes the error; a click on submit issues no request.
C7_MalformedJson ==
    [][Malformed(text') =>
          /\ buildBatchPayload(text', sourcetype', TRUE) = NoPayload(NotSet)
          /\ buildBatchPayload(text', sourcetype', FALSE)
                 = NoPayload(InvalidJsonMsg)
          /\ payloadPreview' = <<>>
          /\ lastOp' = "change" => error' = error
          /\ lastOp' = "handleMap" =>
                 /\ inflight' = <<>>
                 /\ ~loading'
                 /\ error' = InvalidJsonMsg]_vars

\* Submit was clicked on malformed JSON.
C7_Witness ==
    /\ lastOp = "handleMap"
    /\ Malformed(text)
    /\ error = InvalidJsonMsg
    /\ inflight = <<>>

\* C9: at most one POST /map-batch is in flight at any time.
C9_SingleFlight == Len(inflight) <= 1

\* A request is in flight and the button is disabled.
C9_Witness == Len(inflight) = 1 /\ loading /\ Len(inflight[1].payload) > 0

\* C10: the view never shows both an error and results.
C10_ErrorOrResults == error # NoError => results = <<>>

\* A request failed with the backend's detail, after which the view shows
\* the error and no results.
C10_Witness ==
    /\ lastOp = "rejected"
    /\ error \in ErrorTexts \ {""}
    /\ results = <<>>

\* C11: after a POST /map-batch succeeded the list shown is exactly the
\* results array of that response, in its order, with nothing of an earlier
\* submission; for a missing or non-array results the list is empty; no
\* error is set.
C11_ResultsReplaced ==
    lastOp = "resolved" =>
        /\ event.isArray => results = event.results
        /\ ~event.isArray => results = <<>>
        /\ error = NoError

\* A response with two results was shown.
C11_Witness ==
    /\ lastOp = "resolved"
    /\ event.isArray
    /\ Len(event.results) = 2
    /\ results = event.results

(***************************************************************************)
(* MappingsListPage (src/src/pages/MappingsListPage.tsx): the table of     *)
(* stored mappings, its handlers, and the GET /mappings and PATCH          *)
(* /mappings/{id} requests it has in flight.  A row is a record of the     *)
(* fields of MappingRow and human_verified; its strings are sequences of   *)
(* characters, confidence is null or a number, human_verified is           *)
(* undefined or a boolean.                                                 *)
(***************************************************************************)
PageSize == 20
NotFound == 404

UpperCase ==
    <<"A", "B", "C", "D", "E", "F", "G", "H", "I", "J", "K", "L", "M",
      "N", "O", "P", "Q", "R", "S", "T", "U", "V", "W", "X", "Y", "Z">>
LowerCase ==
    <<"a", "b", "c", "d", "e", "f", "g", "h", "i", "j", "k", "l", "m",
      "n", "o", "p", "q", "r", "s", "t", "u", "v", "w", "x", "y", "z">>

toLowerChar(c) ==
    IF \E i \in 1..Len(UpperCase) : UpperCase[i] = c
    THEN LowerCase[CHOOSE i \in 1..Len(UpperCase) : UpperCase[i] = c]
    ELSE c

\* String.prototype.toLowerCase
toLowerCase(str) == [i \in 1..Len(str) |-> toLowerChar(str[i])]

\* String.prototype.includes
includes(str, t) ==
    /\ Len(t) <= Len(str)
    /\ \E k \in 0..(Len(str) - Len(t)) : SubSeq(str, k + 1, k + Len(t)) = t

matchesCaseSensitive(r, t) ==
    \/ includes(r.sourcetype, t)
    \/ includes(r.source_field, t)
    \/ includes(r.mapped_field_name, t)

\* lines 55-59: the test of one row against the lower-cased query
matches(r, t) ==
    \/ includes(toLowerCase(r.sourcetype), t)
    \/ includes(toLowerCase(r.source_field), t)
    \/ includes(toLowerCase(r.mapped_field_name), t)

\* lines 52-60: filtered
filterRows(query, rows) ==
    IF query = <<>> THEN rows
    ELSE LET t == toLowerCase(query)
         IN  SelectSeq(rows, LAMBDA r : matches(r, t))

\* lines 264, 275, 276: Math.max(1, Math.ceil(total / pageSize))
pageCount ==
    LET pages == (total + PageSize - 1) \div PageSize
    IN  IF pages < 1 THEN 1 ELSE pages

\* !!v of a value that is undefined or a boolean
truthy(v) == Tag(v) = "bool" /\ v[2]

\* A row of the table field_mapping as the backend sends it.
Row(id, st, sf, name, hv) ==
    [id |-> id, sourcetype |-> st, source_field |-> sf,
     mapped_field_name |-> name, mapping_type |-> <<"e", "c", "s">>,
     rationale |-> Null, confidence |-> Null,
     created_at |-> <<"2", "0", "2", "5">>, human_verified |-> hv]

Row1 == Row(1, <<"p">>, <<"s">>, <<"b", ".", "c">>, Undefined)
Row2 == Row(2, <<"A">>, <<"d">>, <<"Z">>, Bool(TRUE))

\* What the backend may answer to GET /mappings: the data of a success,
\* with or without the members items and total, and the failures.
ListData ==
    { [hasItems |-> TRUE, items |-> <<Row1, Row2>>,
       hasTotal |-> TRUE, total |-> PageSize + 1],
      [hasItems |-> TRUE, items |-> <<Row2>>,
       hasTotal |-> TRUE, total |-> PageSize + 1],
      [hasItems |-> FALSE, items |-> <<>>,
       hasTotal |-> FALSE, total |-> 0] }
Failures ==
    { [hasResponse |-> FALSE, status |-> 0],
      [hasResponse |-> TRUE, status |-> NotFound],
      [hasResponse |-> TRUE, status |-> 500] }

\* What the user types into the search box and into the name of a row.
Queries == {<<>>, <<"A">>}
EditNames == {<<" ">>, <<" ", "Z">>}

itemsKept(data) == items

\* line 32: data.items || []
itemsOf(data) == IF data.hasItems THEN data.items ELSE <<>>

\* line 33: data.total || 0
totalOf(data) == IF data.hasTotal THEN data.total ELSE 0

never404(e) == FALSE

\* lines 35-40: the error carries a response whose status is 404
is404(e) == e.hasResponse /\ e.status = NotFound

\* The form page is not mounted while the list page is.
FormUnmounted ==
    /\ text = <<>> /\ sourcetype = PanTraffic /\ model = "" /\ limit = 0
    /\ error = NoError /\ results = <<>> /\ payloadPreview = <<>>
    /\ inflight = <<>>
    /\ doc = Null /\ extracted = <<>> /\ silentArg = FALSE
    /\ built = NotBuilt /\ pc = "ready"

offList == <<text, sourcetype, model, limit, error, results, payloadPreview,
             inflight, doc, extracted, silentArg, built, pc, csv>>

\* The page after it mounted: the states of lines 11-22 and the first
\* load(), which the effect of line 50 starts.
InitList ==
    /\ items = <<>> /\ q = <<>> /\ page = 1 /\ total = 0
    /\ loading = TRUE
    /\ notImplemented = FALSE
    /\ savingId = NoId /\ editId = NoId
    /\ editHuman = FALSE /\ editMapped = <<>>
    /\ filtered = <<>>
    /\ gets = <<[search |-> <<>>, page |-> 1]>>
    /\ patches = <<>>
    /\ csv = <<>>
    /\ lastOp = "init" /\ event = NoEvent
    /\ FormUnmounted

\* lines 24-31: load() up to the await of api.get, called from a render
\* whose q and page are query and pg
startLoad(query, pg) ==
    /\ Len(gets) + Len(patches) < MaxRequests
    /\ loading' = TRUE
    /\ notImplemented' = FALSE
    /\ gets' = Append(gets, [search |-> query, page |-> pg])

\* line 50: the effect calls load() when page changed
pageEffect(query, pg) ==
    IF pg # page THEN startLoad(query, pg)
    ELSE UNCHANGED <<loading, notImplemented, gets>>

\* line 138: the search box
SetQ(v) ==
    /\ v # q
    /\ q' = v
    /\ page' = 1
    /\ filtered' = filterRows(v, items)
    /\ pageEffect(v, 1)
    /\ lastOp' = "user" /\ event' = NoEvent
    /\ UNCHANGED <<items, total, savingId, editId, editHuman, editMapped,
                   patches>>

\* lines 266-272
Prev ==
    /\ page # 1
    /\ page' = (IF page - 1 < 1 THEN 1 ELSE page - 1)
    /\ pageEffect(q, page')
    /\ lastOp' = "user" /\ event' = NoEvent
    /\ UNCHANGED <<items, q, total, savingId, editId, editHuman, editMapped,
                   filtered, patches>>

\* lines 273-279
NextPage ==
    /\ page # pageCount
    /\ page' = (IF page + 1 > pageCount THEN pageCount ELSE page + 1)
    /\ pageEffect(q, page')
    /\ lastOp' = "user" /\ event' = NoEvent
    /\ UNCHANGED <<items, q, total, savingId, editId, editHuman, editMapped,
                   filtered, patches>>

\* lines 145-151: the Refresh button, disabled={loading}
Refresh ==
    /\ ~loading
    /\ startLoad(q, page)
    /\ lastOp' = "user" /\ event' = NoEvent
    /\ UNCHANGED <<items, q, page, total, savingId, editId, editHuman,
                   editMapped, filtered, patches>>

\* lines 29-33 and 44-46: the i-th GET succeeds with data
LoadResolved(i, data) ==
    /\ i \in 1..Len(gets)
    /\ items' = itemsOf(data)
    /\ total' = totalOf(data)
    /\ loading' = FALSE
    /\ filtered' = filterRows(q, items')
    /\ gets' = Without(gets, i)
    /\ lastOp' = "loaded" /\ event' = [page |-> gets[i].page, data |-> data]
    /\ UNCHANGED <<q, page, notImplemented, savingId, editId, editHuman,
                   editMapped, patches>>

\* lines 34-46: the i-th GET fails with e
LoadRejected(i, e) ==
    /\ i \in 1..Len(gets)
    /\ notImplemented' = (IF is404(e) THEN TRUE ELSE notImplemented)
    /\ loading' = FALSE
    /\ gets' = Without(gets, i)
    /\ lastOp' = "loadFailed" /\ event' = [error |-> e]
    /\ UNCHANGED <<items, q, page, total, savingId, editId, editHuman,
                   editMapped, filtered, patches>>

\* line 180: the table shows the row with this id
shown(id) == \E i \in 1..Len(filtered) : filtered[i].id = id

\* lines 94-98 and 224-229: Edit on the i-th row shown, which is not the
\* one being edited
StartEdit(i) ==
    /\ i \in 1..Len(filtered)
    /\ editId # filtered[i].id
    /\ editId' = filtered[i].id
    /\ editHuman' = truthy(filtered[i].human_verified)
    /\ editMapped' = filtered[i].mapped_field_name
    /\ lastOp' = "user" /\ event' = NoEvent
    /\ UNCHANGED <<items, q, page, total, loading, notImplemented, savingId,
                   filtered, gets, patches>>

\* lines 99-103 and 239-245: Cancel, disabled={savingId === r.id}
CancelEdit ==
    /\ shown(editId)
    /\ savingId # editId
    /\ editId' = NoId
    /\ editHuman' = FALSE
    /\ editMapped' = <<>>
    /\ lastOp' = "user" /\ event' = NoEvent
    /\ UNCHANGED <<items, q, page, total, loading, notImplemented, savingId,
                   filtered, gets, patches>>

\* lines 192-197: the name input of the row being edited
SetEditMapped(v) ==
    /\ shown(editId)
    /\ v # editMapped
    /\ editMapped' = v
    /\ lastOp' = "user" /\ event' = NoEvent
    /\ UNCHANGED <<items, q, page, total, loading, notImplemented, savingId,
                   editId, editHuman, filtered, gets, patches>>

\* lines 210-216: the checkbox of the row being edited,
\* disabled={!isEditing || savingId === r.id}
SetEditHuman ==
    /\ shown(editId)
    /\ savingId # editId
    /\ editHuman' = ~editHuman
    /\ lastOp' = "user" /\ event' = NoEvent
    /\ UNCHANGED <<items, q, page, total, loading, notImplemented, savingId,
                   editId, editMapped, filtered, gets, patches>>

neverEmpty(name) == FALSE

\* line 106: !nextName
isEmptyName(name) == name = <<>>

\* lines 104-115 and 232-238: Save on the row being edited,
\* disabled={savingId === r.id}; up to the await of api.patch
SaveEdit ==
    /\ shown(editId)
    /\ savingId # editId
    /\ LET nextName == Trim(editMapped)
       IN  IF isEmptyName(nextName)
           THEN UNCHANGED <<savingId, patches>>
           ELSE /\ Len(gets) + Len(patches) < MaxRequests
                /\ savingId' = editId
                /\ patches' = Append(patches,
                       [id |-> editId, human_verified |-> editHuman,
                        mapped_field_name |-> nextName])
    /\ lastOp' = "saveEdit" /\ event' = NoEvent
    /\ UNCHANGED <<items, q, page, total, loading, notImplemented, editId,
                   editHuman, editMapped, filtered, gets>>

patchNothing(rows, req) == rows

\* lines 116-120: the row with the id of the request gets its two fields
patchRows(rows, req) ==
    [k \in 1..Len(rows) |->
        IF rows[k].id = req.id
        THEN [rows[k] EXCEPT !.human_verified = Bool(req.human_verified),
                             !.mapped_field_name = req.mapped_field_name]
        ELSE rows[k]]

savingKept == savingId

\* lines 126-128: finally { setSavingId(null) }
savingCleared == NoId

\* lines 112-122 and 126-128: the i-th PATCH succeeds
PatchResolved(i) ==
    /\ i \in 1..Len(patches)
    /\ items' = patchRows(items, patches[i])
    /\ editId' = NoId
    /\ savingId' = savingCleared
    /\ filtered' = filterRows(q, items')
    /\ patches' = Without(patches, i)
    /\ lastOp' = "saved" /\ event' = [request |-> patches[i]]
    /\ UNCHANGED <<q, page, total, loading, notImplemented, editHuman,
                   editMapped, gets>>

\* lines 123-128: the i-th PATCH fails
PatchRejected(i) ==
    /\ i \in 1..Len(patches)
    /\ savingId' = savingCleared
    /\ patches' = Without(patches, i)
    /\ lastOp' = "saveFailed" /\ event' = [request |-> patches[i]]
    /\ UNCHANGED <<items, q, page, total, loading, notImplemented, editId,
                   editHuman, editMapped, filtered, gets>>

NextList ==
    \/ \E v \in Queries : SetQ(v) /\ UNCHANGED offList
    \/ Prev /\ UNCHANGED offList
    \/ NextPage /\ UNCHANGED offList
    \/ Refresh /\ UNCHANGED offList
    \/ \E i \in 1..MaxRequests, data \in ListData :
           LoadResolved(i, data) /\ UNCHANGED offList
    \/ \E i \in 1..MaxRequests, e \in Failures :
           LoadRejected(i, e) /\ UNCHANGED offList
    \/ \E i \in 1..Len(filtered) : StartEdit(i) /\ UNCHANGED offList
    \/ CancelEdit /\ UNCHANGED offList
    \/ \E v \in EditNames : SetEditMapped(v) /\ UNCHANGED offList
    \/ SetEditHuman /\ UNCHANGED offList
    \/ SaveEdit /\ UNCHANGED offList
    \/ \E i \in 1..MaxRequests : PatchResolved(i) /\ UNCHANGED offList
    \/ \E i \in 1..MaxRequests : PatchRejected(i) /\ UNCHANGED offList

SpecList == InitList /\ [][NextList]_vars

(***************************************************************************)
(* Claims about the list page, under SpecList.                             *)
(***************************************************************************)
\* C12: Save on a name that is empty after trimming issues no PATCH and
\* blocks the save: items, editId, editMapped, editHuman and savingId stay
\* as they are.
C12_BlankNameBlocked ==
    [][(lastOp' = "saveEdit" /\ AllWhitespace(editMapped)) =>
          /\ patches' = patches
          /\ gets' = gets
          /\ UNCHANGED <<items, editId, editMapped, editHuman, savingId>>]_vars

\* Save was clicked on a name of white space; nothing was sent.
C12_Witness ==
    /\ lastOp = "saveEdit"
    /\ editId # NoId
    /\ editMapped = <<" ">>
    /\ savingId = NoId
    /\ patches = <<>>

\* The fields of a row a save does not submit.
FieldsKept ==
    {"id", "sourcetype", "source_field", "mapping_type", "rationale",
     "confidence", "created_at"}

\* name has no white space at either end and is not empty.
Trimmed(name) ==
    /\ Len(name) > 0
    /\ name[1] \notin Whitespace
    /\ name[Len(name)] \notin Whitespace

\* C13: when a PATCH for a row succeeds, the cached row with its id gets
\* the submitted trimmed name and the submitted flag, its other fields and
\* all other rows stay, and the save issues no GET /mappings.
C13_SavePatchesOneRow ==
    [][lastOp' = "saved" =>
          LET req == event'.request
          IN  /\ Trimmed(req.mapped_field_name)
              /\ Len(items') = Len(items)
              /\ \A k \in 1..Len(items) :
                     IF items[k].id = req.id
                     THEN /\ items'[k].mapped_field_name
                                = req.mapped_field_name
                          /\ items'[k].human_verified
                                = Bool(req.human_verified)
                          /\ \A f \in FieldsKept : items'[k][f] = items[k][f]
                     ELSE items'[k] = items[k]
              /\ gets' = gets]_vars

\* The first row was saved with a new name and the flag set, beside an
\* untouched second row.
C13_Witness ==
    /\ lastOp = "saved"
    /\ event.request.id = Row1.id
    /\ items = << [Row1 EXCEPT !.mapped_field_name = <<"Z">>,
                              !.human_verified = Bool(TRUE)],
                  Row2 >>

\* C14: when a PATCH fails the cached items are not changed, the edit form
\* keeps editId, editMapped and editHuman, and savingId is cleared.
C14_FailedSaveKeepsForm ==
    [][lastOp' = "saveFailed" =>
          /\ items' = items
          /\ UNCHANGED <<editId, editMapped, editHuman>>
          /\ savingId' = NoId]_vars

\* The save of the row being edited failed and its form is still open.
C14_Witness ==
    /\ lastOp = "saveFailed"
    /\ editId = event.request.id
    /\ editMapped = <<" ", "Z">>
    /\ savingId = NoId

\* The error of a failed GET /mappings is a response with status 404.
Status404(e) == e.hasResponse /\ e.status = NotFound

\* C15: when GET /mappings fails with status 404, notImplemented becomes
\* true and that response changes neither items nor total.
C15_NotFoundAdvisory ==
    [][(lastOp' = "loadFailed" /\ Status404(event'.error)) =>
          /\ notImplemented'
          /\ items' = items
          /\ total' = total]_vars

\* A refresh of a loaded list failed with 404.
C15_Witness ==
    /\ lastOp = "loadFailed"
    /\ Status404(event.error)
    /\ notImplemented
    /\ Len(items) > 0
    /\ total > 0

\* C17: a row being edited leaves the editing state only because its own
\* save succeeded, because Cancel was pressed, or because Edit was pressed
\* on another row; the success of a save of a different row does not close
\* it.
C17_EditClosedOnlyBy ==
    [][(editId # NoId /\ editId' # editId) =>
          \/ lastOp' = "saved" /\ event'.request.id = editId
          \/ lastOp' = "user" /\ editId' = NoId
                 /\ shown(editId) /\ savingId # editId
          \/ lastOp' = "user" /\ shown(editId')]_vars

\* C18: after overlapping list requests succeeded, items and total are
\* those of the response that resolved last, whatever the order in which
\* the requests were issued.
C18_LastResponseWins ==
    lastOp = "loaded" =>
        /\ items = (IF event.data.hasItems THEN event.data.items ELSE <<>>)
        /\ total = (IF event.data.hasTotal THEN event.data.total ELSE 0)

\* The response that resolved last answers a request for another page than
\* the current one, and its rows are the ones cached.
C18_Witness ==
    /\ lastOp = "loaded"
    /\ gets = <<>>
    /\ event.page # page
    /\ Len(items) > 0
    /\ items = event.data.items

\* C19: when GET /mappings fails with any error, items and total keep the
\* values of the last successful load and loading is false; after an error
\* other than 404 notImplemented is false.
C19_FailureClearsAdvisory ==
    [][lastOp' = "loadFailed" =>
          /\ items' = items
          /\ total' = total
          /\ ~loading'
          /\ ~Status404(event'.error) => ~notImplemented']_vars

\* Two characters are the same letter, in whatever case.
SameLetter(a, b) ==
    \/ a = b
    \/ \E i \in 1..Len(UpperCase) : {a, b} = {UpperCase[i], LowerCase[i]}

\* query occurs in str, the case of letters ignored.
OccursIn(str, query) ==
    \E k \in 0..Len(str) :
        /\ k + Len(query) <= Len(str)
        /\ \A j \in 1..Len(query) : SameLetter(str[k + j], query[j])

\* The row is one the query selects.
Hit(r) ==
    \/ OccursIn(r.sourcetype, q)
    \/ OccursIn(r.source_field, q)
    \/ OccursIn(r.mapped_field_name, q)

\* The j-th smallest element of a set of numbers.
Nth(S, j) == CHOOSE i \in S : Cardinality({k \in S : k < i}) = j - 1

\* C20: the rows shown are exactly the cached items of which sourcetype,
\* source_field or mapped_field_name contains the query, case ignored (all
\* of them for the empty query), in the cached order; so they are never
\* more than the cached items; the page count shown is
\* max(1, ceil(total / pageSize)), of the server's total.
C20_VisibleRows ==
    LET hits == {i \in 1..Len(items) : Hit(items[i])}
    IN  /\ Len(filtered) = Cardinality(hits)
        /\ \A j \in 1..Len(filtered) : filtered[j] = items[Nth(hits, j)]
        /\ Len(filtered) <= Len(items)
        /\ pageCount >= 1
        /\ pageCount * PageSize >= total
        /\ pageCount > 1 => (pageCount - 1) * PageSize < total

\* The query hides one of two cached rows while the server's total gives
\* two pages.
C20_Witness ==
    /\ q # <<>>
    /\ Len(items) = 2
    /\ Len(filtered) = 1
    /\ total > PageSize
    /\ pageCount = 2

(***************************************************************************)
(* exportCSV (lines 62-91) on the rows shown: the text of the file, as a   *)
(* sequence of characters.  The handler changes no state of the page.      *)
(***************************************************************************)
\* lines 63-67
Header ==
    << <<"i", "d">>,
       <<"s", "o", "u", "r", "c", "e", "t", "y", "p", "e">>,
       <<"s", "o", "u", "r", "c", "e", "_", "f", "i", "e", "l", "d">>,
       <<"m", "a", "p", "p", "e", "d", "_", "f", "i", "e", "l", "d",
         "_", "n", "a", "m", "e">>,
       <<"m", "a", "p", "p", "e", "d", "_", "f", "i", "e", "l", "d",
         "_", "n", "a", "m", "e", "_", "u", "n", "d", "e", "r", "s",
         "c", "o", "r", "e">>,
       <<"m", "a", "p", "p", "i", "n", "g", "_", "t", "y", "p", "e">>,
       <<"c", "o", "n", "f", "i", "d", "e", "n", "c", "e">>,
       <<"c", "r", "e", "a", "t", "e", "d", "_", "a", "t">>,
       <<"h", "u", "m", "a", "n", "_", "v", "e", "r", "i", "f", "i",
         "e", "d">> >>

RECURSIVE replaceAll(_, _, _)
\* String.prototype.replaceAll for a pattern of one character
replaceAll(str, c, by) ==
    IF str = <<>> THEN <<>>
    ELSE (IF Head(str) = c THEN by ELSE <<Head(str)>>)
         \o replaceAll(Tail(str), c, by)

RECURSIVE join(_, _)
\* Array.prototype.join
join(parts, sep) ==
    IF parts = <<>> THEN <<>>
    ELSE IF Len(parts) = 1 THEN parts[1]
    ELSE parts[1] \o sep \o join(Tail(parts), sep)

TrueText == <<"t", "r", "u", "e">>
FalseText == <<"f", "a", "l", "s", "e">>

\* lines 68-78: the values of one row
columnsOf(r) ==
    << Num(r.id),
       Str(r.sourcetype),
       Str(r.source_field),
       Str(r.mapped_field_name),
       Str(replaceAll(r.mapped_field_name, ".", <<"_">>)),
       Str(r.mapping_type),
       IF Tag(r.confidence) = "null" THEN Str(<<>>) ELSE r.confidence,
       Str(r.created_at),
       Str(IF truthy(r.human_verified) THEN TrueText ELSE FalseText) >>

quoteRaw(v) == Quoted(String(v))

\* line 80: `"${String(v).replaceAll('"','""')}"`
quote(v) == Quoted(replaceAll(String(v), "\"", <<"\"", "\"">>))

\* line 80: one line of the file
csvLine(cols) == join([i \in 1..Len(cols) |-> quote(cols[i])], <<",">>)

\* lines 79-81
exportCSV(rows) ==
    LET all == << [i \in 1..Len(Header) |-> Str(Header[i])] >>
               \o [i \in 1..Len(rows) |-> columnsOf(rows[i])]
    IN  join([i \in 1..Len(all) |-> csvLine(all[i])], <<"\n">>)

\* Rows whose values hold quotes, commas, line breaks and dots.
ExportRows ==
    { [id |-> 1, sourcetype |-> <<"p", "a", "n">>,
       source_field |-> <<"a", "\"", "b">>,
       mapped_field_name |-> <<"a", ".", "b", ".", "c">>,
       mapping_type |-> <<"e", "c", "s">>, rationale |-> Null,
       confidence |-> Null, created_at |-> <<"2", "0", "2", "5">>,
       human_verified |-> Undefined],
      [id |-> 12, sourcetype |-> <<"x", ",", "y">>,
       source_field |-> <<"l", "\n", "m">>,
       mapped_field_name |-> <<"A", "_", "b">>,
       mapping_type |-> <<"e", "c", "s">>, rationale |-> Null,
       confidence |-> Num(0), created_at |-> <<"2", "0", "2", "5">>,
       human_verified |-> Bool(TRUE)],
      [id |-> 3, sourcetype |-> <<"\"", "\"">>,
       source_field |-> <<>>,
       mapped_field_name |-> <<".">>,
       mapping_type |-> <<"e", "c", "s">>, rationale |-> Null,
       confidence |-> Num(7), created_at |-> <<"2", "0", "2", "5">>,
       human_verified |-> Bool(FALSE)],
      [id |-> 4, sourcetype |-> <<"z">>,
       source_field |-> <<"\"">>,
       mapped_field_name |-> <<"x", "\"", ".", ",">>,
       mapping_type |-> <<"e", "c", "s">>, rationale |-> Null,
       confidence |-> Null, created_at |-> <<"2", "0", "2", "5">>,
       human_verified |-> Bool(TRUE)] }

ExportQueries == {<<>>, <<"A">>, <<"x">>, <<"\"">>}

\* The page with some rows loaded and a query typed.
InitExport ==
    /\ items \in SeqsUpTo(ExportRows, MaxRows)
    /\ q \in ExportQueries
    /\ filtered = filterRows(q, items)
    /\ page = 1 /\ total = Len(items)
    /\ loading = FALSE /\ notImplemented = FALSE
    /\ savingId = NoId /\ editId = NoId
    /\ editHuman = FALSE /\ editMapped = <<>>
    /\ gets = <<>> /\ patches = <<>>
    /\ csv = <<>>
    /\ lastOp = "init" /\ event = NoEvent
    /\ FormUnmounted

\* line 142: the Export CSV button
ExportCSV ==
    /\ pc = "ready"
    /\ csv' = exportCSV(filtered)
    /\ pc' = "done"
    /\ UNCHANGED <<pageVars, doc, extracted, silentArg, built>>
    /\ UNCHANGED <<items, q, page, total, notImplemented, savingId, editId,
                   editHuman, editMapped, filtered, gets, patches>>

NextExport == ExportCSV

SpecExport == InitExport /\ [][NextExport]_vars

(***************************************************************************)
(* Reading a CSV text back: records parted by line breaks, fields by       *)
(* commas, every field in double quotes, a doubled quote standing for one. *)
(* A comma or line break parts fields only outside quotes, that is after   *)
(* an even number of quote characters.                                     *)
(***************************************************************************)
\* The positions of the character c in txt that are outside quotes.
Breaks(txt, c) ==
    {i \in 1..Len(txt) :
        /\ txt[i] = c
        /\ Cardinality({k \in 1..(i - 1) : txt[k] = "\""}) % 2 = 0}

\* txt[lo..hi] cut at the positions cuts: the pieces between them.
Pieces(txt, lo, hi, cuts) ==
    LET ends == cuts \cup {lo - 1, hi + 1}
    IN  [j \in 1..(Cardinality(ends) - 1) |->
            SubSeq(txt, Nth(ends, j) + 1, Nth(ends, j + 1) - 1)]

RECURSIVE Undoubled(_)
\* The text between the quotes of a field with each doubled quote made
\* one; <<FALSE, _>> if a quote stands alone.
Undoubled(inner) ==
    IF inner = <<>> THEN <<TRUE, <<>>>>
    ELSE IF Head(inner) # "\""
    THEN LET rest == Undoubled(Tail(inner))
         IN  <<rest[1], <<Head(inner)>> \o rest[2]>>
    ELSE IF Len(inner) >= 2 /\ inner[2] = "\""
    THEN LET rest == Undoubled(Tail(Tail(inner)))
         IN  <<rest[1], <<"\"">> \o rest[2]>>
    ELSE <<FALSE, <<>>>>

\* One field: <<it is quoted as it should be, its value>>.
ReadField(f) ==
    IF Len(f) >= 2 /\ f[1] = "\"" /\ f[Len(f)] = "\""
    THEN Undoubled(SubSeq(f, 2, Len(f) - 1))
    ELSE <<FALSE, <<>>>>

\* The records of a CSV text, each a sequence of fields as ReadField gives.
ReadCsv(txt) ==
    LET lines == Pieces(txt, 1, Len(txt), Breaks(txt, "\n"))
    IN  [r \in 1..Len(lines) |->
            LET fields == Pieces(lines[r], 1, Len(lines[r]),
                                 Breaks(lines[r], ","))
            IN  [c \in 1..Len(fields) |-> ReadField(fields[c])]]

\* u is name with every "." replaced by "_".
Underscored(name, u) ==
    /\ Len(u) = Len(name)
    /\ \A i \in 1..Len(name) :
           u[i] = (IF name[i] = "." THEN "_" ELSE name[i])

\* rec is a record of 9 quoted fields with the values of row r.
RecordOf(rec, r) ==
    /\ Len(rec) = Len(Header)
    /\ \A c \in 1..Len(rec) : rec[c][1]
    /\ rec[1][2] = ToDecimal(r.id)
    /\ rec[2][2] = r.sourcetype
    /\ rec[3][2] = r.source_field
    /\ rec[4][2] = r.mapped_field_name
    /\ Underscored(r.mapped_field_name, rec[5][2])
    /\ rec[6][2] = r.mapping_type
    /\ rec[7][2] = (IF Tag(r.confidence) = "num"
                    THEN ToDecimal(r.confidence[2]) ELSE <<>>)
    /\ rec[8][2] = r.created_at
    /\ rec[9][2] = (IF r.human_verified = Bool(TRUE)
                    THEN TrueText ELSE FalseText)

\* C16: the file of K rows shown holds K + 1 records, the header and one
\* per row shown in their order, each of the same 9 columns in the fixed
\* order; every value is in double quotes with its quotes doubled; the
\* underscore column is mapped_field_name with "." replaced by "_"; rows
\* the filter hides are not exported.
C16_CsvOfShownRows ==
    pc = "done" =>
        LET records == ReadCsv(csv)
            hits == {i \in 1..Len(items) : Hit(items[i])}
        IN  /\ Len(records) = Cardinality(hits) + 1
            /\ Len(Header) = 9
            /\ records[1] = [c \in 1..Len(Header) |-> <<TRUE, Header[c]>>]
            /\ \A j \in 1..Cardinality(hits) :
                   RecordOf(records[j + 1], items[Nth(hits, j)])

\* A file of one row with a quote in a value, made while the query hides
\* the other cached row.
C16_Witness ==
    /\ pc = "done"
    /\ Len(items) = 2
    /\ Len(filtered) = 1
    /\ \E i \in 1..Len(filtered[1].source_field) :
           filtered[1].source_field[i] = "\""
    /\ Len(csv) > 0


(***************************************************************************)
(* Arrays in a document, and the lookup of the paths the walk returns,     *)
(* under SpecExtract.                                                      *)
(***************************************************************************)
\* The key sequence ks of d passes through a field whose value is an array:
\* its last keys are indices of that array, or keys of its elements.
IntoArray(d, ks) ==
    \E j \in 1..(Len(ks) - 1) : IsArray(ValueAt(d, SubSeq(ks, 1, j)))

\* The paths of d formed by key sequences that enter no array.
PlainPaths(d) ==
    {pathOfKeys(<<>>, ks) : ks \in {k \in KeySeqs(d) : ~IntoArray(d, k)}}

\* The paths "<field>.<index>" (and below) of the arrays of d.
ElementPaths(d) ==
    {pathOfKeys(<<>>, ks) : ks \in {k \in KeySeqs(d) : IntoArray(d, k)}}
        \ PlainPaths(d)

\* C21: arrays are not unrolled: a field whose value is an array gives its
\* own path only, and no path "<field>.<index>" of one of its elements is
\* returned.
C21_ArraysNotUnrolled ==
    pc = "done" => SetOf(extracted) \cap ElementPaths(doc) = {}

\* The key sequences of d that the walk of lines 17-30 reaches: at most
\* maximum depth + 1 keys.
Walked(d) == {ks \in KeySeqs(d) : Len(ks) <= DefaultMaxDepth + 1}

\* C25: for every path p that extractFieldPaths(d) returns, getByPath(d, p)
\* is the value stored in d under the key sequence that produced p, also
\* for keys that contain a ".".
C25_LookupRoundTrip ==
    pc = "done" =>
        \A ks \in Walked(doc) :
            pathOfKeys(<<>>, ks) \in SetOf(extracted)
                => getByPath(doc, pathOfKeys(<<>>, ks)) = ValueAt(doc, ks)

(***************************************************************************)
(* Saves, the pager and the search box of the list page, under SpecList.   *)
(***************************************************************************)
\* C22: whenever a PATCH for a row is in flight, savingId is the id of
\* that row, also when saves of different rows overlap.
C22_SavingIdOfPending ==
    \A i \in 1..Len(patches) : savingId = patches[i].id

\* C23: in every reachable state 1 <= page <= max(1, ceil(total / pageSize)),
\* also after a load that returned a smaller total than before.
C23_PageInRange ==
    1 <= page /\ page <= pageCount

\* C24: every change of the search query starts a GET /mappings carrying
\* the new query, also when the page number is already 1.
C24_QueryChangeLoads ==
    [][q' # q =>
          /\ Len(gets') = Len(gets) + 1
          /\ gets'[Len(gets')].search = q']_vars

=============================================================================
